---- MODULE Spec2Model ----
(***************************************************************************)
(* The customer-churn SageMaker pipeline notebook                          *)
(* (sagemaker-pipeline/demo_customer_churn_SM_pipeline.ipynb): the step    *)
(* descriptors it builds, the pipeline it assembles from them, the         *)
(* validation of a pipeline graph, and the notebook's calls (upsert,       *)
(* start, describe, read of the report, clean-up) running beside the       *)
(* pipeline service's execution of the started pipeline.                   *)
(***************************************************************************)
EXTENDS Integers, Sequences, FiniteSets, TLC

(***************************************************************************)
(* Bounds of the model.                                                    *)
(***************************************************************************)
\* edits applied to the notebook's pipeline before it is validated
MaxEdits == 2
\* times the upsert cell is run
MaxUpserts == 2
\* times the start cell is run
MaxStarts == 1
\* executions started side by side where executions are compared
MaxExecs == 2

(***************************************************************************)
(* Pipeline parameters.  A parameter with no enum_values takes any value   *)
(* of its type; default values are written as strings.                     *)
(***************************************************************************)
Parameter(n, t, d, enum) ==
    [name |-> n, type |-> t, default_value |-> d, enum_values |-> enum]

processing_instance_count ==
    Parameter("ProcessingInstanceCount", "Integer", "1", {})

processing_instance_type ==
    Parameter("ProcessingInstanceType", "String", "ml.m5.xlarge", {})

train_instance_count ==
    Parameter("TrainingInstanceCount", "Integer", "1", {})

train_instance_type ==
    Parameter("TrainingInstance", "String", "ml.m5.xlarge", {})

model_approval_status ==
    Parameter("ModelApprovalStatus", "String", "Approved",
              {"PendingManualApproval", "Approved"})

model_output ==
    Parameter("ModelOutputUrl", "String", "s3://bucket/prefix/model", {})

(***************************************************************************)
(* Step descriptors.  A property reference names a step and one of its     *)
(* outputs.                                                                *)
(***************************************************************************)
Ref(s, o) == [step |-> s, output |-> o]

Step(n, outs, refs) == [name |-> n, outputs |-> outs, refs |-> refs]

\* variant: the callback step takes the evaluation report as an input
step_callback_data_cyclic ==
    Step("GluePrepCallbackStep", {"trainUri", "valUri", "testUri"},
         {Ref("EvaluateModel", "EvaluationReport")})

step_callback_data ==
    Step("GluePrepCallbackStep", {"trainUri", "valUri", "testUri"}, {})

step_train ==
    Step("TrainModel", {"ModelArtifacts"},
         {Ref("GluePrepCallbackStep", "trainUri"),
          Ref("GluePrepCallbackStep", "valUri")})

step_eval ==
    Step("EvaluateModel", {"evaluation", "EvaluationReport"},
         {Ref("TrainModel", "ModelArtifacts")})

step_create_model ==
    Step("CustomerChurnCreateModel", {"ModelName"},
         {Ref("TrainModel", "ModelArtifacts")})

step_register ==
    Step("RegisterModel", {},
         {Ref("TrainModel", "ModelArtifacts")})

\* variant: DeployModel refers to a step name no step of the graph has
deploy_step_misnamed ==
    Step("DeployModel", {},
         {Ref("CreateModel", "ModelName")})

deploy_step ==
    Step("DeployModel", {},
         {Ref("CustomerChurnCreateModel", "ModelName")})

\* the condition's left operand: JsonGet on EvaluateModel's property file
cond_left == Ref("EvaluateModel", "EvaluationReport")

step_cond == Step("CheckEvaluation", {}, {cond_left})

\* variant: the top-level list also names a step of the then-branch
steps_with_branch_step ==
    <<step_callback_data, step_train, step_eval, step_cond,
      step_create_model>>

if_steps == <<step_create_model, step_register, deploy_step>>

else_steps == <<>>

steps == <<step_callback_data, step_train, step_eval, step_cond>>

PipelineName == "Demo-customer-churn-pipeline"

\* variant: the list leaves out the parameter the estimator writes to
parameters_without_model_output ==
    <<processing_instance_count, processing_instance_type,
      train_instance_count, train_instance_type,
      model_approval_status>>

\* the parameters argument of Pipeline(...)
parameters ==
    <<processing_instance_count, processing_instance_type,
      train_instance_count, train_instance_type,
      model_approval_status, model_output>>

pipeline ==
    [name |-> PipelineName, parameters |-> parameters, steps |-> steps,
     if_steps |-> if_steps, else_steps |-> else_steps]

\* the parameters a step's definition is built from: the estimator of
\* TrainModel, the processor of EvaluateModel, the estimator and the
\* approval status of RegisterModel
ParametersUsedBy(n) ==
    CASE n = "TrainModel" ->
             {train_instance_type, train_instance_count, model_output}
      [] n = "EvaluateModel" -> {processing_instance_type}
      [] n = "RegisterModel" ->
             {train_instance_type, train_instance_count, model_output,
              model_approval_status}
      [] OTHER -> {}

(***************************************************************************)
(* Validation of a pipeline graph.                                         *)
(***************************************************************************)
AllSteps(p) == p.steps \o p.if_steps \o p.else_steps

NamesOf(seq) == {seq[i].name : i \in DOMAIN seq}

StepNames(p) == NamesOf(AllSteps(p))

\* variant: uniqueness is looked at in the top-level list only
UniqueTopLevelOnly(p) ==
    \A i, j \in DOMAIN p.steps : i # j => p.steps[i].name # p.steps[j].name

\* every step name is unique across the step list and the if/else lists
UniqueStepNames(p) ==
    LET all == AllSteps(p)
    IN  \A i, j \in DOMAIN all : i # j => all[i].name # all[j].name

\* every property reference names a step of the graph and one of its outputs
RefsResolve(p) ==
    LET all == AllSteps(p)
    IN  \A i \in DOMAIN all : \A r \in all[i].refs :
            \E j \in DOMAIN all :
                all[j].name = r.step /\ r.output \in all[j].outputs

\* the names a step holds property references to
DepsOf(p, n) ==
    LET all == AllSteps(p)
    IN  {r.step : r \in UNION {all[i].refs : i \in {j \in DOMAIN all : all[j].name = n}}}

RECURSIVE ReachFrom(_, _, _)
\* the names reachable from the frontier along property references
ReachFrom(p, frontier, seen) ==
    LET next == UNION {DepsOf(p, n) : n \in frontier} \ seen
    IN  IF next = {} THEN seen ELSE ReachFrom(p, next, seen \cup next)

\* no step reaches itself along property references
Acyclic(p) == \A n \in StepNames(p) : n \notin ReachFrom(p, {n}, {})

\* the then-branch, the else-branch and the top-level list share no step
BranchesDisjoint(p) ==
    /\ NamesOf(p.if_steps) \cap NamesOf(p.else_steps) = {}
    /\ NamesOf(p.if_steps) \cap NamesOf(p.steps) = {}
    /\ NamesOf(p.else_steps) \cap NamesOf(p.steps) = {}

\* the parameters the definitions of the steps of a graph are built from
UsedParameters(p) == UNION {ParametersUsedBy(n) : n \in StepNames(p)}

\* all of the parameters used in the definitions are in the parameter list
ParametersPresent(p) ==
    \A q \in UsedParameters(p) :
        \E i \in DOMAIN p.parameters : p.parameters[i] = q

\* no two parameters of the list have the same name
UniqueParameterNames(p) ==
    \A i, j \in DOMAIN p.parameters :
        i # j => p.parameters[i].name # p.parameters[j].name

Validate(p) ==
    /\ UniqueStepNames(p)
    /\ RefsResolve(p)
    /\ Acyclic(p)
    /\ BranchesDisjoint(p)
    /\ ParametersPresent(p)
    /\ UniqueParameterNames(p)

(***************************************************************************)
(* State.                                                                  *)
(*   draft, edits, verdict : the pipeline object (the graph handed to      *)
(*       validation and submitted by upsert), the number of edits made to  *)
(*       the notebook's graph, and the verdict of a validation             *)
(*   pc        : the notebook cell that runs next                          *)
(*   registry  : the pipeline definitions the service holds               *)
(*   upserts   : upsert calls made so far                                  *)
(*   started   : executions started so far (execution ids 1..started)      *)
(*   execStatus, stepState, condResult, accuracy : per execution, its      *)
(*       status, each step's state, the condition's outcome and the        *)
(*       accuracy value its EvaluateModel step reported (0: none yet)      *)
(*   report    : the accuracy in evaluation.json at eval_output (0: the    *)
(*       object does not exist)                                            *)
(*   endpoint  : the endpoint named endpoint_name exists                   *)
(*   described : the status the last describe call returned                *)
(*   approval  : per execution, the value ModelApprovalStatus resolved to  *)
(*       at its start ("none": not started)                                *)
(***************************************************************************)
VARIABLES draft, edits, verdict,
          pc, registry, upserts, started,
          execStatus, stepState, condResult, accuracy,
          report, endpoint, described, approval

bvars == <<draft, edits, verdict>>

svars == <<pc, registry, upserts, started,
           execStatus, stepState, condResult, accuracy,
           report, endpoint, described, approval>>

vars == <<draft, edits, verdict, pc, registry, upserts, started,
          execStatus, stepState, condResult, accuracy,
          report, endpoint, described, approval>>

(***************************************************************************)
(* Building a pipeline graph: the notebook's graph, edited, then           *)
(* validated.                                                              *)
(***************************************************************************)
StepPool ==
    {step_callback_data, step_train, step_eval, step_cond,
     step_create_model, step_register, deploy_step}

ListNames == {"steps", "if_steps", "else_steps"}

\* the references an edit may add: those the notebook uses, one to an
\* output its step does not declare, one to a step that does not exist
RefPool ==
    {Ref("GluePrepCallbackStep", "trainUri"),
     Ref("GluePrepCallbackStep", "valUri"),
     Ref("TrainModel", "ModelArtifacts"),
     Ref("EvaluateModel", "EvaluationReport"),
     Ref("CustomerChurnCreateModel", "ModelName"),
     Ref("EvaluateModel", "NoSuchOutput"),
     Ref("NoSuchStep", "ModelArtifacts")}

RemoveAt(seq, i) ==
    [k \in 1..(Len(seq) - 1) |-> IF k < i THEN seq[k] ELSE seq[k + 1]]

WithRef(seq, n, r) ==
    [k \in DOMAIN seq |->
        IF seq[k].name = n
        THEN [seq[k] EXCEPT !.refs = @ \cup {r}]
        ELSE seq[k]]

CanEdit == verdict = "none" /\ edits < MaxEdits

EditAppend(l, s) ==
    /\ CanEdit
    /\ draft' = [draft EXCEPT ![l] = Append(@, s)]
    /\ edits' = edits + 1
    /\ UNCHANGED <<verdict, svars>>

EditRemove(l, i) ==
    /\ CanEdit
    /\ i \in DOMAIN draft[l]
    /\ draft' = [draft EXCEPT ![l] = RemoveAt(@, i)]
    /\ edits' = edits + 1
    /\ UNCHANGED <<verdict, svars>>

EditAddRef(n, r) ==
    /\ CanEdit
    /\ \A i \in DOMAIN AllSteps(draft) :
          AllSteps(draft)[i].name = n => r \notin AllSteps(draft)[i].refs
    /\ draft' = [draft EXCEPT !.steps = WithRef(@, n, r),
                              !.if_steps = WithRef(@, n, r),
                              !.else_steps = WithRef(@, n, r)]
    /\ edits' = edits + 1
    /\ UNCHANGED <<verdict, svars>>

\* the parameters an edit may add to the list: those of the notebook
ParameterPool ==
    {processing_instance_count, processing_instance_type,
     train_instance_count, train_instance_type,
     model_approval_status, model_output}

EditAddParameter(q) ==
    /\ CanEdit
    /\ draft' = [draft EXCEPT !.parameters = Append(@, q)]
    /\ edits' = edits + 1
    /\ UNCHANGED <<verdict, svars>>

EditRemoveParameter(i) ==
    /\ CanEdit
    /\ i \in DOMAIN draft.parameters
    /\ draft' = [draft EXCEPT !.parameters = RemoveAt(@, i)]
    /\ edits' = edits + 1
    /\ UNCHANGED <<verdict, svars>>

ValidateDraft ==
    /\ verdict = "none"
    /\ verdict' = IF Validate(draft) THEN "accepted" ELSE "rejected"
    /\ UNCHANGED <<draft, edits, svars>>

(***************************************************************************)
(* The condition of CheckEvaluation.  Accuracy values are in hundredths:   *)
(* 95 is 0.95.                                                             *)
(***************************************************************************)
Threshold == 95

AccuracyValues == {93, 95, 97}

\* variant: the comparison the name cond_lte announces
cond_lte_as_named(acc) == acc <= Threshold

\* ConditionGreaterThanOrEqualTo(left = accuracy, right = 0.95)
\* variant: the condition holds whatever the accuracy
cond_lte_always(acc) == TRUE

cond_lte(acc) == acc >= Threshold

endpoint_name == "demo-customer-churn-xgboost"

(***************************************************************************)
(* The pipeline service: executions of the registered pipeline.            *)
(***************************************************************************)
Execs == 1..(IF MaxExecs > MaxStarts THEN MaxExecs ELSE MaxStarts)

StepStates == {"Pending", "Executing", "Succeeded", "Failed"}

\* a definition under the name is registered
Registered(n) == \E i \in DOMAIN registry : registry[i].name = n

\* variant: a referenced step needs only to have started
DepsStarted(p, st, n) == \A d \in DepsOf(p, n) : st[d] # "Pending"

\* the property references of step n have all resolved
DepsSucceeded(p, st, n) == \A d \in DepsOf(p, n) : st[d] = "Succeeded"

\* variant: a branch step waits for its property references only
BranchOpenByReferencesOnly(p, res, n) == TRUE

\* variant: a branch step waits for the condition, whatever its outcome
BranchOpenOnAnyOutcome(p, res, n) ==
    n \in NamesOf(p.if_steps) \cup NamesOf(p.else_steps) => res # "none"

\* a branch step waits for the condition's outcome; a top-level step does not
BranchOpen(p, res, n) ==
    /\ n \in NamesOf(p.if_steps) => res = "true"
    /\ n \in NamesOf(p.else_steps) => res = "false"

\* variant: a step also waits for the steps listed before it in its list
RunnableInListOrder(p, st, res) ==
    {n \in StepNames(p) :
        /\ st[n] = "Pending"
        /\ DepsOf(p, n) \subseteq {d \in DOMAIN st : st[d] = "Succeeded"}
        /\ n \in NamesOf(p.if_steps) => res = "true"
        /\ n \in NamesOf(p.else_steps) => res = "false"
        /\ \A m \in StepNames(p) : st[m] # "Failed"
        /\ \A l \in {"steps", "if_steps", "else_steps"} :
              \A i, j \in DOMAIN p[l] :
                  (p[l][j].name = n /\ i < j) => st[p[l][i].name] # "Pending"}

\* the steps the service may start next, given the step states and the
\* condition's outcome
Runnable(p, st, res) ==
    {n \in StepNames(p) :
        /\ st[n] = "Pending"
        /\ DepsSucceeded(p, st, n)
        /\ BranchOpen(p, res, n)
        /\ \A m \in StepNames(p) : st[m] # "Failed"}

StartStep(e, n) ==
    /\ execStatus[e] = "Executing"
    /\ n \in Runnable(draft, stepState[e], condResult[e])
    /\ stepState' = [stepState EXCEPT ![e][n] = "Executing"]
    /\ UNCHANGED <<bvars, pc, registry, upserts, started,
                   execStatus, condResult, accuracy,
                   report, endpoint, described, approval>>

\* a job step ends well; EvaluateModel writes the accuracy into its report
\* at eval_output, DeployModel creates the endpoint named endpoint_name
FinishStep(e, n) ==
    /\ execStatus[e] = "Executing"
    /\ n # step_cond.name
    /\ stepState[e][n] = "Executing"
    /\ stepState' = [stepState EXCEPT ![e][n] = "Succeeded"]
    /\ IF n = step_eval.name
       THEN \E a \in AccuracyValues :
                /\ accuracy' = [accuracy EXCEPT ![e] = a]
                /\ report' = a
       ELSE UNCHANGED <<accuracy, report>>
    /\ endpoint' = IF n = deploy_step.name THEN TRUE ELSE endpoint
    /\ UNCHANGED <<bvars, pc, registry, upserts, started,
                   execStatus, condResult, described, approval>>

FailStep(e, n) ==
    /\ execStatus[e] = "Executing"
    /\ stepState[e][n] = "Executing"
    /\ stepState' = [stepState EXCEPT ![e][n] = "Failed"]
    /\ UNCHANGED <<bvars, pc, registry, upserts, started,
                   execStatus, condResult, accuracy,
                   report, endpoint, described, approval>>

\* the condition step resolves its operand and selects a branch
EvaluateCondition(e) ==
    /\ execStatus[e] = "Executing"
    /\ stepState[e][step_cond.name] = "Executing"
    /\ condResult' = [condResult EXCEPT ![e] =
                         IF cond_lte(accuracy[e]) THEN "true" ELSE "false"]
    /\ stepState' = [stepState EXCEPT ![e][step_cond.name] = "Succeeded"]
    /\ UNCHANGED <<bvars, pc, registry, upserts, started,
                   execStatus, accuracy, report, endpoint, described, approval>>

\* nothing runs and nothing can start: the execution ends
CompleteExecution(e) ==
    /\ execStatus[e] = "Executing"
    /\ \A n \in StepNames(draft) : stepState[e][n] # "Executing"
    /\ Runnable(draft, stepState[e], condResult[e]) = {}
    /\ execStatus' = [execStatus EXCEPT ![e] =
                         IF \E n \in StepNames(draft) : stepState[e][n] = "Failed"
                         THEN "Failed" ELSE "Succeeded"]
    /\ UNCHANGED <<bvars, pc, registry, upserts, started,
                   stepState, condResult, accuracy,
                   report, endpoint, described, approval>>

(***************************************************************************)
(* The notebook's cells.                                                   *)
(***************************************************************************)
\* variant: every submission goes under a name of its own
UpsertNameFresh ==
    IF upserts = 0 THEN draft.name ELSE "Demo-customer-churn-pipeline-again"

\* the name a definition is submitted under
UpsertName == draft.name

\* update the definition held under the name, or add it when there is none
UpsertRegistry(reg, d) ==
    IF \E i \in DOMAIN reg : reg[i].name = d.name
    THEN [i \in DOMAIN reg |-> IF reg[i].name = d.name THEN d ELSE reg[i]]
    ELSE Append(reg, d)

\* pipeline.upsert(role_arn=role); the cell may be run again
Upsert ==
    /\ pc = "upsert"
    /\ upserts < MaxUpserts
    /\ IF Validate(draft)
       THEN /\ registry' = UpsertRegistry(registry,
                              [name |-> UpsertName, definition |-> draft,
                               revision |-> upserts + 1])
            /\ upserts' = upserts + 1
            /\ \/ pc' = "start"
               \/ upserts + 1 < MaxUpserts /\ pc' = "upsert"
       ELSE /\ pc' = "error"
            /\ UNCHANGED <<registry, upserts>>
    /\ UNCHANGED <<bvars, started, execStatus, stepState, condResult, accuracy,
                   report, endpoint, described, approval>>

\* a start without a parameters argument
NoOverride == "default"

\* the values a start may give ModelApprovalStatus
ApprovalOverrides ==
    {NoOverride, "PendingManualApproval", "Approved", "Rejected"}

\* the definition the service holds under a name
Definition(n) ==
    registry[CHOOSE i \in DOMAIN registry : registry[i].name = n].definition

\* the parameter of a definition with the given name
ParameterNamed(p, n) ==
    p.parameters[CHOOSE i \in DOMAIN p.parameters : p.parameters[i].name = n]

\* variant: any string is taken for a String parameter
OverrideAllowedAnyString(prm, o) == prm.type = "String"

\* a value given at start must be one of the parameter's enum_values, where
\* it has any
OverrideAllowed(prm, o) ==
    o = NoOverride \/ prm.enum_values = {} \/ o \in prm.enum_values

\* the value the parameter has in the execution
Resolve(prm, o) == IF o = NoOverride THEN prm.default_value ELSE o

\* variant: every start runs the one execution again
RestartedExecution(k) == 1

\* the execution a start returns after k earlier starts: a new one
NewExecution(k) == k + 1

\* pipeline.start(parameters=dict(ModelApprovalStatus=o)), of at most
\* bound executions; the cell may be run again
StartWith(o, bound) ==
    /\ pc = "start"
    /\ started < bound
    /\ IF /\ Registered(draft.name)
          /\ OverrideAllowed(ParameterNamed(Definition(draft.name),
                                            model_approval_status.name), o)
       THEN /\ started' = started + 1
            /\ execStatus' =
                   [execStatus EXCEPT ![NewExecution(started)] = "Executing"]
            /\ approval' =
                   [approval EXCEPT ![NewExecution(started)] =
                       Resolve(ParameterNamed(Definition(draft.name),
                                              model_approval_status.name), o)]
            /\ \/ pc' = "describe"
               \/ started + 1 < bound /\ pc' = "start"
       ELSE /\ pc' = "error"
            /\ UNCHANGED <<started, execStatus, approval>>
    /\ UNCHANGED <<bvars, registry, upserts, stepState, condResult, accuracy,
                   report, endpoint, described>>

\* execution = pipeline.start(); the cell may be run again
Start == StartWith(NoOverride, MaxStarts)

\* variant: the notebook starts the pipeline again when describe shows a
\* failed execution
DescribeAndRetry ==
    /\ pc = "describe"
    /\ described' = execStatus[started]
    /\ pc' = IF execStatus[started] = "Failed" THEN "start" ELSE "read_eval"
    /\ UNCHANGED <<bvars, registry, upserts, started,
                   execStatus, stepState, condResult, accuracy,
                   report, endpoint, approval>>

\* execution.describe(), of the execution started last;
\* execution.wait() is commented out, so the next cell follows at once
Describe ==
    /\ pc = "describe"
    /\ described' = execStatus[started]
    /\ pc' = "read_eval"
    /\ UNCHANGED <<bvars, registry, upserts, started,
                   execStatus, stepState, condResult, accuracy,
                   report, endpoint, approval>>

\* S3Downloader.read_file of evaluation.json: raises when the object is not
\* there
ReadEvaluation ==
    /\ pc = "read_eval"
    /\ pc' = IF report # 0 THEN "lineage" ELSE "error"
    /\ UNCHANGED <<bvars, registry, upserts, started,
                   execStatus, stepState, condResult, accuracy,
                   report, endpoint, described, approval>>

\* execution.list_steps() and the lineage tables: reads only
Lineage ==
    /\ pc = "lineage"
    /\ pc' = "cleanup_pipeline"
    /\ UNCHANGED <<bvars, registry, upserts, started,
                   execStatus, stepState, condResult, accuracy,
                   report, endpoint, described, approval>>

\* the definitions left when those under the name are deleted
DeleteFromRegistry(reg, n) == SelectSeq(reg, LAMBDA d : d.name # n)

\* clean-up cell, first call: pipeline.delete()
CleanupDeletePipeline ==
    /\ pc = "cleanup_pipeline"
    /\ IF Registered(draft.name)
       THEN /\ registry' = DeleteFromRegistry(registry, draft.name)
            /\ pc' = "cleanup_endpoint"
       ELSE /\ pc' = "error"
            /\ UNCHANGED registry
    /\ UNCHANGED <<bvars, upserts, started,
                   execStatus, stepState, condResult, accuracy,
                   report, endpoint, described, approval>>

\* clean-up cell, second call: delete_endpoint(EndpointName=endpoint_name)
\* raises when there is no such endpoint, and the cell stops there
CleanupDeleteEndpoint ==
    /\ pc = "cleanup_endpoint"
    /\ IF endpoint
       THEN endpoint' = FALSE /\ pc' = "cleanup_s3"
       ELSE pc' = "error" /\ UNCHANGED endpoint
    /\ UNCHANGED <<bvars, registry, upserts, started,
                   execStatus, stepState, condResult, accuracy,
                   report, described, approval>>

\* clean-up cell, last line: aws s3 rm s3://$bucket/$prefix, without
\* --recursive, names the prefix as one object key and removes no object
\* under it
CleanupRemoveArtefacts ==
    /\ pc = "cleanup_s3"
    /\ pc' = "done"
    /\ UNCHANGED <<bvars, registry, upserts, started,
                   execStatus, stepState, condResult, accuracy,
                   report, endpoint, described, approval>>

(***************************************************************************)
(* Specifications.                                                         *)
(***************************************************************************)
Init ==
    /\ draft = pipeline
    /\ edits = 0
    /\ verdict = "none"
    /\ pc = "upsert"
    /\ registry = <<>>
    /\ upserts = 0
    /\ started = 0
    /\ execStatus = [e \in Execs |-> "none"]
    /\ stepState = [e \in Execs |-> [n \in StepNames(pipeline) |-> "Pending"]]
    /\ condResult = [e \in Execs |-> "none"]
    /\ accuracy = [e \in Execs |-> 0]
    /\ report = 0
    /\ endpoint = FALSE
    /\ described = "none"
    /\ approval = [e \in Execs |-> "none"]

Next ==
    \/ Upsert
    \/ Start
    \/ Describe
    \/ ReadEvaluation
    \/ Lineage
    \/ CleanupDeletePipeline
    \/ CleanupDeleteEndpoint
    \/ CleanupRemoveArtefacts
    \/ \E e \in Execs, n \in StepNames(draft) : StartStep(e, n)
    \/ \E e \in Execs, n \in StepNames(draft) : FinishStep(e, n)
    \/ \E e \in Execs, n \in StepNames(draft) : FailStep(e, n)
    \/ \E e \in Execs : EvaluateCondition(e)
    \/ \E e \in Execs : CompleteExecution(e)

Spec == Init /\ [][Next]_vars

\* the orders a list can be written in
Perms(seq) ==
    {q \in [DOMAIN seq -> {seq[i] : i \in DOMAIN seq}] :
        \A i, j \in DOMAIN seq : i # j => q[i] # q[j]}

\* the notebook's pipeline with its top-level list and its if_steps list
\* written in any order
PermutedPipelines ==
    {[pipeline EXCEPT !.steps = a, !.if_steps = b] :
        a \in Perms(steps), b \in Perms(if_steps)}

\* one execution, just started, of the pipeline with its lists in some order
InitPerm ==
    /\ draft \in PermutedPipelines
    /\ edits = 0
    /\ verdict = "none"
    /\ pc = "describe"
    /\ registry = <<[name |-> draft.name, definition |-> draft, revision |-> 1]>>
    /\ upserts = 1
    /\ started = 1
    /\ execStatus = [e \in Execs |-> IF e = 1 THEN "Executing" ELSE "none"]
    /\ stepState = [e \in Execs |-> [n \in StepNames(pipeline) |-> "Pending"]]
    /\ condResult = [e \in Execs |-> "none"]
    /\ accuracy = [e \in Execs |-> 0]
    /\ report = 0
    /\ endpoint = FALSE
    /\ described = "none"
    /\ approval = [e \in Execs |-> IF e = 1
                                     THEN model_approval_status.default_value
                                     ELSE "none"]

NextPerm ==
    \/ \E n \in StepNames(draft) : StartStep(1, n)
    \/ \E n \in StepNames(draft) : FinishStep(1, n)
    \/ \E n \in StepNames(draft) : FailStep(1, n)
    \/ EvaluateCondition(1)
    \/ CompleteExecution(1)

SpecPerm == InitPerm /\ [][NextPerm]_vars

NextBuilder ==
    \/ \E l \in ListNames, s \in StepPool : EditAppend(l, s)
    \/ \E l \in ListNames, i \in 1..7 : EditRemove(l, i)
    \/ \E n \in StepNames(pipeline), r \in RefPool : EditAddRef(n, r)
    \/ \E q \in ParameterPool : EditAddParameter(q)
    \/ \E i \in 1..7 : EditRemoveParameter(i)
    \/ ValidateDraft

SpecBuilder == Init /\ [][NextBuilder]_vars

\* the notebook's pipeline upserted once, the start cell next
InitService ==
    /\ draft = pipeline
    /\ edits = 0
    /\ verdict = "none"
    /\ pc = "start"
    /\ registry = <<[name |-> draft.name, definition |-> draft, revision |-> 1]>>
    /\ upserts = 1
    /\ started = 0
    /\ execStatus = [e \in Execs |-> "none"]
    /\ stepState = [e \in Execs |-> [n \in StepNames(pipeline) |-> "Pending"]]
    /\ condResult = [e \in Execs |-> "none"]
    /\ accuracy = [e \in Execs |-> 0]
    /\ report = 0
    /\ endpoint = FALSE
    /\ described = "none"
    /\ approval = [e \in Execs |-> "none"]

\* starts that give ModelApprovalStatus a value, beside the service
NextParams ==
    \/ \E o \in ApprovalOverrides : StartWith(o, MaxStarts)
    \/ \E e \in Execs, n \in StepNames(draft) : StartStep(e, n)
    \/ \E e \in Execs, n \in StepNames(draft) : FinishStep(e, n)
    \/ \E e \in Execs, n \in StepNames(draft) : FailStep(e, n)
    \/ \E e \in Execs : EvaluateCondition(e)
    \/ \E e \in Execs : CompleteExecution(e)

SpecParams == InitService /\ [][NextParams]_vars

\* several executions started one after the other, running side by side
NextMulti ==
    \/ StartWith(NoOverride, MaxExecs)
    \/ \E e \in Execs, n \in StepNames(draft) : StartStep(e, n)
    \/ \E e \in Execs, n \in StepNames(draft) : FinishStep(e, n)
    \/ \E e \in Execs, n \in StepNames(draft) : FailStep(e, n)
    \/ \E e \in Execs : EvaluateCondition(e)
    \/ \E e \in Execs : CompleteExecution(e)

SpecMulti == InitService /\ [][NextMulti]_vars

\* the started executions beside a service that schedules fairly
NextService ==
    \/ Start
    \/ \E e \in Execs, n \in StepNames(draft) : StartStep(e, n)
    \/ \E e \in Execs, n \in StepNames(draft) : FinishStep(e, n)
    \/ \E e \in Execs, n \in StepNames(draft) : FailStep(e, n)
    \/ \E e \in Execs : EvaluateCondition(e)
    \/ \E e \in Execs : CompleteExecution(e)

\* a step that can start is started, a running step ends (the callback
\* step's token is returned, a job ends well or fails), a condition that
\* runs is evaluated, and an execution with nothing left to run is ended
FairService ==
    \A e \in Execs :
        /\ WF_vars(\E n \in StepNames(pipeline) : StartStep(e, n))
        /\ \A n \in StepNames(pipeline) :
              WF_vars(FinishStep(e, n) \/ FailStep(e, n))
        /\ WF_vars(EvaluateCondition(e))
        /\ WF_vars(CompleteExecution(e))

SpecFair == InitService /\ [][NextService]_vars /\ FairService

(***************************************************************************)
(* Properties of validation (specification SpecBuilder).                   *)
(***************************************************************************)
SevenStepNames ==
    {"GluePrepCallbackStep", "TrainModel", "EvaluateModel", "CheckEvaluation",
     "CustomerChurnCreateModel", "RegisterModel", "DeployModel"}

Validated == verdict # "none"

\* the property references of the graph as pairs <<holder, referenced step>>
RefEdges(p) ==
    UNION {{<<AllSteps(p)[i].name, r.step>> : r \in AllSteps(p)[i].refs} :
              i \in DOMAIN AllSteps(p)}

RECURSIVE Closure(_)
\* the transitive closure of a set of pairs
Closure(E) ==
    LET joined == {<<a[1][1], a[2][2]>> :
                      a \in {b \in E \X E : b[1][2] = b[2][1]}}
    IN  IF joined \subseteq E THEN E ELSE Closure(E \cup joined)

HasCycle(p) == \E c \in Closure(RefEdges(p)) : c[1] = c[2]

\* C1: an accepted pipeline has no two steps (top-level or in a branch)
\* with the same name, and the notebook's pipeline of seven steps, unedited,
\* is accepted with seven distinct names.
C1_UniqueStepNames ==
    /\ verdict = "accepted" =>
          Cardinality(StepNames(draft)) = Len(AllSteps(draft))
    /\ (edits = 0 /\ Validated) =>
          /\ verdict = "accepted"
          /\ StepNames(draft) = SevenStepNames
          /\ Len(AllSteps(draft)) = 7

\* a graph rejected for a shared step name and for nothing else
C1_Witness ==
    /\ verdict = "rejected"
    /\ Cardinality(StepNames(draft)) < Len(AllSteps(draft))
    /\ RefsResolve(draft) /\ Acyclic(draft) /\ BranchesDisjoint(draft)

\* C2: in an accepted pipeline every property reference names a step of
\* the graph and an output that step declares; the notebook's pipeline holds
\* exactly the six references of its steps and is accepted.
C2_RefsResolve ==
    /\ verdict = "accepted" =>
          \A i \in DOMAIN AllSteps(draft) : \A r \in AllSteps(draft)[i].refs :
              /\ r.step \in StepNames(draft)
              /\ \A j \in DOMAIN AllSteps(draft) :
                    AllSteps(draft)[j].name = r.step =>
                        r.output \in AllSteps(draft)[j].outputs
    /\ (edits = 0 /\ Validated) =>
          /\ verdict = "accepted"
          /\ RefEdges(draft) =
                {<<"TrainModel", "GluePrepCallbackStep">>,
                 <<"EvaluateModel", "TrainModel">>,
                 <<"CustomerChurnCreateModel", "TrainModel">>,
                 <<"RegisterModel", "TrainModel">>,
                 <<"DeployModel", "CustomerChurnCreateModel">>,
                 <<"CheckEvaluation", "EvaluateModel">>}

\* a graph rejected for a reference to a step that does not exist, and for
\* nothing else
C2_Witness ==
    /\ verdict = "rejected"
    /\ \E e \in RefEdges(draft) : e[2] \notin StepNames(draft)
    /\ UniqueStepNames(draft) /\ Acyclic(draft) /\ BranchesDisjoint(draft)

\* C3: the property references of an accepted pipeline form no cycle, and
\* those of the notebook's pipeline form none.
C3_Acyclic ==
    /\ verdict = "accepted" => ~HasCycle(draft)
    /\ edits = 0 => ~HasCycle(draft)

\* a graph rejected for a cycle of references and for nothing else
C3_Witness ==
    /\ verdict = "rejected"
    /\ HasCycle(draft)
    /\ UniqueStepNames(draft) /\ RefsResolve(draft) /\ BranchesDisjoint(draft)

\* C4: the then-branch, the else-branch and the top-level list of the
\* notebook's pipeline, and of every accepted pipeline, are pairwise
\* disjoint.
C4_BranchesDisjoint ==
    LET top == NamesOf(draft.steps)
        thn == NamesOf(draft.if_steps)
        els == NamesOf(draft.else_steps)
    IN  (edits = 0 \/ verdict = "accepted") =>
            /\ thn \cap els = {}
            /\ thn \cap top = {}
            /\ els \cap top = {}

\* an accepted graph with steps in both branches
C4_Witness ==
    /\ verdict = "accepted"
    /\ draft.if_steps # <<>>
    /\ draft.else_steps # <<>>

(***************************************************************************)
(* Properties of an execution (specifications Spec and SpecPerm).          *)
(***************************************************************************)
ThenBranch == {"CustomerChurnCreateModel", "RegisterModel", "DeployModel"}

NotebookEdges ==
    {<<"TrainModel", "GluePrepCallbackStep">>,
     <<"EvaluateModel", "TrainModel">>,
     <<"CheckEvaluation", "EvaluateModel">>,
     <<"CustomerChurnCreateModel", "TrainModel">>,
     <<"RegisterModel", "TrainModel">>,
     <<"DeployModel", "CustomerChurnCreateModel">>}

Entered(e, n) == stepState[e][n] # "Pending"

C6_RegisteredOnlyAboveThreshold ==
    \A e \in Execs : Entered(e, "RegisterModel") => accuracy[e] > Threshold

\* C7: before the condition is evaluated no branch step is entered; once it
\* is evaluated its outcome never changes, and every step of the branch not
\* selected is Pending in every later state.
C7_OneBranchOnly ==
    /\ [](\A e \in Execs :
            /\ condResult[e] = "none" =>
                  \A n \in ThenBranch \cup NamesOf(draft.else_steps) : ~Entered(e, n)
            /\ condResult[e] = "true" =>
                  \A n \in NamesOf(draft.else_steps) : ~Entered(e, n)
            /\ condResult[e] = "false" =>
                  \A n \in ThenBranch : ~Entered(e, n))
    /\ [][\A e \in Execs :
            condResult[e] # "none" => condResult'[e] = condResult[e]]_vars

\* the else-branch was selected and the execution ended with the
\* then-branch never entered
C7_Witness ==
    \E e \in Execs :
        /\ condResult[e] = "false"
        /\ execStatus[e] = "Succeeded"
        /\ \A n \in ThenBranch : stepState[e][n] = "Pending"

\* C8: a step that has left Pending holds property references only to steps
\* that have Succeeded.
C8_DependenciesFirst ==
    \A e \in Execs : \A d \in NotebookEdges :
        Entered(e, d[1]) => stepState[e][d[2]] = "Succeeded"

\* DeployModel runs, after CustomerChurnCreateModel Succeeded
C8_Witness ==
    \E e \in Execs :
        /\ stepState[e]["DeployModel"] = "Executing"
        /\ stepState[e]["CustomerChurnCreateModel"] = "Succeeded"

\* C9: in every state an execution of the pipeline with its lists in another
\* order reaches, the steps the service may start are those it may start for
\* the order written in the notebook, so both have the same behaviours.
C9_OrderIrrelevant ==
    /\ Validate(draft)
    /\ Runnable(draft, stepState[1], condResult[1])
          = Runnable(pipeline, stepState[1], condResult[1])

\* both lists in another order, and the execution ran to the end of the
\* then-branch
C9_Witness ==
    /\ draft.steps[1] = step_cond
    /\ draft.if_steps[1] = deploy_step
    /\ stepState[1]["DeployModel"] = "Succeeded"
    /\ execStatus[1] = "Succeeded"

BeforeDelete ==
    pc \in {"upsert", "start", "describe", "read_eval", "lineage",
            "cleanup_pipeline"}

\* C10: after one or more upserts (and before the clean-up deletes it) the
\* service holds exactly one definition, under the pipeline's name, and it
\* is the one submitted last.
C10_UpsertIdempotent ==
    /\ Len(registry) <= 1
    /\ (upserts >= 1 /\ BeforeDelete) =>
          /\ Len(registry) = 1
          /\ registry[1].name = PipelineName
          /\ registry[1].definition = pipeline
          /\ registry[1].revision = upserts

\* a second upsert has replaced the definition of the first
C10_Witness ==
    /\ upserts = 2
    /\ Len(registry) = 1
    /\ registry[1].revision = 2

\* the names of the parameters the notebook's steps are built from
FiveParameterNames ==
    {"TrainingInstance", "TrainingInstanceCount", "ModelOutputUrl",
     "ProcessingInstanceType", "ModelApprovalStatus"}

ParameterNames(p) == {p.parameters[i].name : i \in DOMAIN p.parameters}

\* C16: the notebook's pipeline, unedited, has every parameter its steps
\* are built from (the five named ones) in its parameter list, under
\* pairwise distinct names; and every accepted pipeline has the parameters
\* of its steps in its list, under pairwise distinct names.
C16_ParametersPresent ==
    /\ edits = 0 =>
          /\ {q.name : q \in UsedParameters(draft)} = FiveParameterNames
          /\ FiveParameterNames \subseteq ParameterNames(draft)
          /\ ParametersPresent(draft)
          /\ Cardinality(ParameterNames(draft)) = Len(draft.parameters)
    /\ verdict = "accepted" =>
          /\ \A q \in UsedParameters(draft) : q.name \in ParameterNames(draft)
          /\ Cardinality(ParameterNames(draft)) = Len(draft.parameters)

\* the notebook's pipeline is accepted with its six parameters; so is the
\* pipeline without ProcessingInstanceCount, which no step uses
C16_Witness ==
    /\ verdict = "accepted"
    /\ edits = 1
    /\ Len(draft.parameters) = 5
    /\ "ProcessingInstanceCount" \notin ParameterNames(draft)
    /\ draft.steps = steps

(***************************************************************************)
(* Properties of starts with parameter values (specification SpecParams).  *)
(***************************************************************************)
\* the values of ApprovalOverrides outside the enum_values of
\* model_approval_status
OutsideEnum ==
    {o \in ApprovalOverrides \ {NoOverride} :
        o \notin model_approval_status.enum_values}

NothingScheduled(e) ==
    /\ execStatus[e] = "none"
    /\ \A n \in StepNames(draft) : stepState[e][n] = "Pending"

\* C11: a start that gives ModelApprovalStatus a value outside its declared
\* enum_values is refused: the step that makes the call creates no execution
\* and changes no step state, the notebook is left with the error, and as
\* long as no start was accepted no execution exists and no step is
\* scheduled.
C11_OverrideOutsideEnumRefused ==
    /\ [][\A o \in OutsideEnum :
            StartWith(o, MaxStarts) =>
                /\ pc' = "error"
                /\ UNCHANGED <<started, execStatus, stepState, condResult,
                               approval, registry>>]_vars
    /\ [](\A e \in Execs : e > started => NothingScheduled(e))

\* a start was refused and nothing runs
C11_Witness ==
    /\ pc = "error"
    /\ started = 0
    /\ Registered(draft.name)
    /\ \A e \in Execs : NothingScheduled(e)

(***************************************************************************)
(* Properties of executions side by side (specification SpecMulti).        *)
(***************************************************************************)
\* what the service holds of one execution
ExecState(e) ==
    <<execStatus[e], stepState[e], condResult[e], accuracy[e], approval[e]>>

\* C12: every start creates a new execution and leaves the executions
\* started before as they are; a step of the service (a step state change,
\* the choice of a branch, a failure, the end of an execution) changes one
\* execution only; and no step changes the definition the service holds or
\* the defaults of its parameters.
C12_ExecutionsIndependent ==
    [][/\ started' # started =>
            /\ started' = started + 1
            /\ \A e \in Execs :
                 IF e = started + 1
                 THEN ExecState(e)' =
                         <<"Executing",
                           [n \in StepNames(draft) |-> "Pending"],
                           "none", 0, model_approval_status.default_value>>
                 ELSE ExecState(e)' = ExecState(e)
       /\ \A e, f \in Execs :
            (e # f /\ ExecState(e)' # ExecState(e)) =>
                ExecState(f)' = ExecState(f)
       /\ registry' = registry
       /\ draft' = draft
       /\ \A i \in DOMAIN registry :
            registry[i].definition.parameters = parameters]_vars

\* two executions in flight: a step of the first has failed, the second
\* has chosen the then-branch
C12_Witness ==
    /\ execStatus[1] = "Executing"
    /\ execStatus[2] = "Executing"
    /\ stepState[1]["TrainModel"] = "Failed"
    /\ condResult[2] = "true"
    /\ stepState[2]["RegisterModel"] = "Executing"

(***************************************************************************)
(* Properties of the notebook run (specification Spec).                    *)
(***************************************************************************)
\* the clean-up cell has made its two delete calls (the second may have
\* raised)
CleanupRan ==
    /\ upserts >= 1
    /\ ~Registered(PipelineName)
    /\ pc \in {"cleanup_s3", "done", "error"}

\* C13: once the clean-up cell has run, neither the pipeline definition nor
\* the endpoint named endpoint_name exists, whatever the started execution
\* does afterwards.
C13_NothingLeftAfterCleanup ==
    CleanupRan => (~Registered(PipelineName) /\ ~endpoint)

Terminal == {"Succeeded", "Failed", "Stopped"}

\* C14: whenever the cell that reads evaluation.json runs, the execution
\* started last has completed, its EvaluateModel step is Succeeded and the
\* report is there.
C14_ReadAfterCompletion ==
    [][(pc = "read_eval" /\ pc' # "read_eval") =>
          /\ execStatus[started] \in Terminal
          /\ stepState[started]["EvaluateModel"] = "Succeeded"
          /\ report # 0]_vars

AnyFailed(e) == \E n \in DOMAIN stepState[e] : stepState[e][n] = "Failed"

\* C15: a step that has reached Failed stays Failed; once the notebook has
\* left the start cell it makes no further start or upsert and never goes
\* back to those cells, whatever fails; an execution that ended with a
\* Failed step has status Failed, and that status stays; and describe
\* returns the status of the execution as the service holds it.
C15_FailurePassedThrough ==
    /\ [][/\ \A e \in Execs : \A n \in DOMAIN stepState[e] :
                stepState[e][n] = "Failed" => stepState'[e][n] = "Failed"
          /\ pc \notin {"upsert", "start"} =>
                /\ pc' \notin {"upsert", "start"}
                /\ started' = started
                /\ upserts' = upserts
          /\ \A e \in Execs :
                execStatus[e] = "Failed" => execStatus'[e] = "Failed"
          /\ (pc = "describe" /\ pc' # "describe") =>
                described' = execStatus[started]]_vars
    /\ [](\A e \in Execs :
            /\ execStatus[e] = "Succeeded" => ~AnyFailed(e)
            /\ execStatus[e] = "Failed" => AnyFailed(e))

\* describe has returned Failed for an execution whose TrainModel step
\* failed, and the notebook has gone on to the next cell
C15_Witness ==
    /\ started = 1
    /\ stepState[1]["TrainModel"] = "Failed"
    /\ execStatus[1] = "Failed"
    /\ described = "Failed"
    /\ pc \notin {"upsert", "start", "describe"}

\* C17: an execution started without parameter values (every start of the
\* notebook's run is one) that enters RegisterModel registers the model
\* with the approval status PendingManualApproval.
C17_DefaultPendingManualApproval ==
    \A e \in Execs :
        Entered(e, "RegisterModel") => approval[e] = "PendingManualApproval"

\* the steps the property references of a step of the graph name
ReferencedSteps(p, n) == {c[2] : c \in {d \in RefEdges(p) : d[1] = n}}

\* C18: the only property references of CustomerChurnCreateModel and
\* RegisterModel name TrainModel, and still no step of the then-branch
\* (CustomerChurnCreateModel, RegisterModel, DeployModel) is entered before
\* EvaluateModel has Succeeded and CheckEvaluation has evaluated to true.
C18_BranchGatedByCondition ==
    /\ ReferencedSteps(draft, "CustomerChurnCreateModel") = {"TrainModel"}
    /\ ReferencedSteps(draft, "RegisterModel") = {"TrainModel"}
    /\ \A e \in Execs, n \in ThenBranch :
          Entered(e, n) =>
              /\ stepState[e]["TrainModel"] = "Succeeded"
              /\ stepState[e]["EvaluateModel"] = "Succeeded"
              /\ stepState[e]["CheckEvaluation"] = "Succeeded"
              /\ condResult[e] = "true"

\* CustomerChurnCreateModel runs, after the condition came out true on an
\* accuracy of exactly 0.95, while the other branch steps still wait
C18_Witness ==
    /\ stepState[1]["CustomerChurnCreateModel"] = "Executing"
    /\ stepState[1]["RegisterModel"] = "Pending"
    /\ stepState[1]["DeployModel"] = "Pending"
    /\ stepState[1]["EvaluateModel"] = "Succeeded"
    /\ condResult[1] = "true"
    /\ accuracy[1] = Threshold

\* C19: whenever the clean-up cell is about to call delete_endpoint the
\* endpoint exists, and the cell never stops at that call, so that the
\* removal of the artefacts is reached.
C19_EndpointExistsAtCleanup ==
    /\ pc = "cleanup_endpoint" => endpoint
    /\ ~(CleanupRan /\ pc = "error")

(***************************************************************************)
(* Properties of executions under fair scheduling (specification           *)
(* SpecFair).                                                              *)
(***************************************************************************)
BelowThreshold(e) == accuracy[e] # 0 /\ accuracy[e] < Threshold

====
